---- MODULE Spec2Model ----
(***************************************************************************)
(* Let'sCode execution engine: submission intake, the submission queue,    *)
(* the worker's processSubmission, the container orchestrator and the      *)
(* judge engine.                                                           *)
(*                                                                         *)
(* Strings are sequences of one-character strings.  An optional value      *)
(* (a field that may be undefined) is a sequence of length 0 or 1.         *)
(***************************************************************************)
EXTENDS Integers, Sequences, FiniteSets, TLC

VARIABLES
  repo,      \* SubmissionRepository: the rows of table submissions, by id
  queue,     \* SubmissionQueue: the redis list submissions:queue
  nextId,    \* number of identifiers uuidv4 has handed out to submit
  submits,   \* submit calls in flight, by submission id
  rejected,  \* the errors submit has thrown at validation
  workers,   \* per worker: position in processSubmission and its submission
  judge,     \* per worker: the activation of JudgeEngine.evaluate
  pool,      \* ContainerOrchestrator.workerPool (ids of environments)
  executed,  \* ids of submissions for which executeInContainer was called
  returned,  \* identifiers that submit has returned to its caller
  cmp,       \* one call of JudgeEngine.compareOutput
  route,     \* one call of StrategyRouter.analyzeCode / selectStrategy
  custom,    \* one call of ExecutionController.runCustomTest
  statusUpdates, \* the calls of ExecutionWebSocketServer.sendUpdate
  violations, \* the SecurityViolation records the engine has made
  qcalls     \* calls of SubmissionQueue.enqueue and dequeue on their own

vars == <<repo, queue, nextId, submits, rejected, workers, judge, pool,
          executed, returned, cmp, route, custom, statusUpdates, violations,
          qcalls>>

----------------------------------------------------------------------------
(* Bounds of the model *)

MaxSubmits == 1
NumWorkers == 2
MaxTests == 3
MaxStrLen == 3
MaxLoops == 7
MaxPool == 2
MaxCalls == 2

----------------------------------------------------------------------------
(* Program constants *)

TestTimeLimit == 1000
RunTimeLimit == 5000
\* systemMetrics.serverLoad = 0.5 and the 0.8 threshold, in percent
ServerLoad == 50
OverloadThreshold == 80
\* 100 * 1024 * 1024 and 1024 * 1024
ClientMemoryCeiling == 104857600
LoopMemory == 1048576

\* Math.max() of no arguments is -Infinity
NegInfinity == 0 - 1

----------------------------------------------------------------------------
(* Optional values *)

NoneV == <<>>
Some(x) == <<x>>
IsSome(o) == Len(o) = 1
Get(o) == o[1]
\* o || d for a numeric or string field (undefined, 0 and '' are falsy)
OrElse(o, d) == IF IsSome(o) THEN Get(o) ELSE d

----------------------------------------------------------------------------
(* Strings *)

Whitespace == {" ", "\n"}
NL == "\n"

IsWs(c) == c \in Whitespace

RECURSIVE trimStart(_)
trimStart(s) ==
  IF s = <<>> THEN s
  ELSE IF IsWs(Head(s)) THEN trimStart(Tail(s)) ELSE s

RECURSIVE trimEnd(_)
trimEnd(s) ==
  IF s = <<>> THEN s
  ELSE IF IsWs(s[Len(s)]) THEN trimEnd(SubSeq(s, 1, Len(s) - 1)) ELSE s

trim(s) == trimEnd(trimStart(s))

\* s.split('\n')
RECURSIVE split(_)
split(s) ==
  IF \A i \in 1..Len(s) : s[i] # NL THEN <<s>>
  ELSE LET i == CHOOSE k \in 1..Len(s) :
                  s[k] = NL /\ \A j \in 1..(k - 1) : s[j] # NL
       IN <<SubSeq(s, 1, i - 1)>> \o split(SubSeq(s, i + 1, Len(s)))

\* lines.join('\n')
RECURSIVE join(_)
join(ls) ==
  IF Len(ls) = 0 THEN <<>>
  ELSE IF Len(ls) = 1 THEN ls[1]
  ELSE ls[1] \o <<NL>> \o join(Tail(ls))

\* lines.map(f) and lines.filter(p)
mapTrimEnd(ls) == [i \in 1..Len(ls) |-> trimEnd(ls[i])]

RECURSIVE filterNonBlank(_)
filterNonBlank(ls) ==
  IF Len(ls) = 0 THEN <<>>
  ELSE IF Len(trim(Head(ls))) > 0
       THEN <<Head(ls)>> \o filterNonBlank(Tail(ls))
       ELSE filterNonBlank(Tail(ls))

----------------------------------------------------------------------------
(* JudgeEngine: output comparison *)

Modes == [trimWhitespace : BOOLEAN, ignoreTrailingSpaces : BOOLEAN,
          ignoreEmptyLines : BOOLEAN]

JudgeMode == [trimWhitespace |-> TRUE, ignoreTrailingSpaces |-> TRUE,
              ignoreEmptyLines |-> FALSE]

\* normalize with line.trim() in place of line.trimEnd()
mapTrim(ls) == [i \in 1..Len(ls) |-> trim(ls[i])]

normalizeTrimsLines(output, mode) ==
  LET n1 == IF mode.trimWhitespace THEN trim(output) ELSE output
      n2 == IF mode.ignoreTrailingSpaces
            THEN join(mapTrim(split(n1))) ELSE n1
      n3 == IF mode.ignoreEmptyLines
            THEN join(filterNonBlank(split(n2))) ELSE n2
  IN n3

\* normalize without its trimWhitespace step
normalizeNoTrim(output, mode) ==
  LET n2 == IF mode.ignoreTrailingSpaces
            THEN join(mapTrimEnd(split(output))) ELSE output
      n3 == IF mode.ignoreEmptyLines
            THEN join(filterNonBlank(split(n2))) ELSE n2
  IN n3

normalize(output, mode) ==
  LET n1 == IF mode.trimWhitespace THEN trim(output) ELSE output
      n2 == IF mode.ignoreTrailingSpaces
            THEN join(mapTrimEnd(split(n1))) ELSE n1
      n3 == IF mode.ignoreEmptyLines
            THEN join(filterNonBlank(split(n2))) ELSE n2
  IN n3

compareOutput(actual, expected, mode) ==
  normalize(actual, mode) = normalize(expected, mode)

----------------------------------------------------------------------------
(* ContainerOrchestrator.executeInContainer *)

\* What the container does with one run: the output stream ends after
\* `elapsed` ms with `stdout`, or never ends ("hang"), or writing the files,
\* creating or starting the exec, or the stream itself fails ("error").
Behaviour(kind, stdout, elapsed) ==
  [kind |-> kind, stdout |-> stdout, elapsed |-> elapsed]

ExecutionResult(success, output, error, verdict, executionTime, memoryUsed) ==
  [success |-> success, output |-> output, error |-> error,
   verdict |-> verdict, executionTime |-> executionTime,
   memoryUsed |-> memoryUsed]

\* collectOutput rejects with 'Time Limit Exceeded' when its timer fires
\* before the stream ends
timerFires(beh, timeout) ==
  beh.kind = "hang" \/ (beh.kind = "end" /\ beh.elapsed >= timeout)

executeInContainer(beh, limits) ==
  IF beh.kind = "end" /\ ~timerFires(beh, limits.timeLimit)
  THEN ExecutionResult(TRUE, Some(beh.stdout), Some(""), NoneV,
                       Some(beh.elapsed), Some(0))
  ELSE IF timerFires(beh, limits.timeLimit)
  THEN ExecutionResult(FALSE, NoneV, Some("Time Limit Exceeded"),
                       Some("Runtime Error"),
                       Some(IF beh.kind = "end" THEN beh.elapsed
                            ELSE limits.timeLimit), NoneV)
  ELSE ExecutionResult(FALSE, NoneV, Some("exec failed"),
                       Some("Runtime Error"), Some(beh.elapsed), NoneV)

\* What one call of the judge's executeFunction gave: a result or an
\* exception; `deadline` records that the orchestrator's timer ended the run.
Outcome(thrown, res, deadline) ==
  [thrown |-> thrown, res |-> res, deadline |-> deadline]

containerOutcome(beh, limits) ==
  Outcome(FALSE, executeInContainer(beh, limits),
          timerFires(beh, limits.timeLimit))

----------------------------------------------------------------------------
(* JudgeEngine.runTestCase, generateVerdict, evaluate *)

TestCase(input, expectedOutput, timeLimit) ==
  [input |-> input, expectedOutput |-> expectedOutput, timeLimit |-> timeLimit]

TestCaseResult(n, passed, verdict, executionTime, memoryUsed, actualOutput, error) ==
  [testCaseNumber |-> n, passed |-> passed, verdict |-> verdict,
   executionTime |-> executionTime, memoryUsed |-> memoryUsed,
   actualOutput |-> actualOutput, error |-> error]

\* runTestCase without its comparison of executionTime with the time limit
runTestCaseNoTimeCheck(testCase, outcome, testNumber) ==
  LET result == outcome.res IN
  IF outcome.thrown
  THEN TestCaseResult(testNumber, FALSE, "Runtime Error", 0, 0, NoneV,
                      Some("Unknown error"))
  ELSE IF ~result.success
  THEN TestCaseResult(testNumber, FALSE,
                      OrElse(result.verdict, "Runtime Error"),
                      OrElse(result.executionTime, 0),
                      OrElse(result.memoryUsed, 0), NoneV, result.error)
  ELSE LET outputMatches ==
             compareOutput(OrElse(result.output, <<>>),
                           testCase.expectedOutput, JudgeMode)
       IN TestCaseResult(testNumber, outputMatches,
                         IF outputMatches THEN "Accepted" ELSE "Wrong Answer",
                         OrElse(result.executionTime, 0),
                         OrElse(result.memoryUsed, 0), result.output, NoneV)

\* runTestCase that reports every failed run as Runtime Error, whatever
\* verdict the result carries
runTestCaseIgnoresVerdict(testCase, outcome, testNumber) ==
  LET result == outcome.res IN
  IF outcome.thrown
  THEN TestCaseResult(testNumber, FALSE, "Runtime Error", 0, 0, NoneV,
                      Some("Unknown error"))
  ELSE IF ~result.success
  THEN TestCaseResult(testNumber, FALSE, "Runtime Error",
                      OrElse(result.executionTime, 0),
                      OrElse(result.memoryUsed, 0), NoneV, result.error)
  ELSE IF OrElse(result.executionTime, 0) # 0
          /\ Get(result.executionTime) > testCase.timeLimit
  THEN TestCaseResult(testNumber, FALSE, "Time Limit Exceeded",
                      Get(result.executionTime),
                      OrElse(result.memoryUsed, 0), NoneV, NoneV)
  ELSE LET outputMatches ==
             compareOutput(OrElse(result.output, <<>>),
                           testCase.expectedOutput, JudgeMode)
       IN TestCaseResult(testNumber, outputMatches,
                         IF outputMatches THEN "Accepted" ELSE "Wrong Answer",
                         OrElse(result.executionTime, 0),
                         OrElse(result.memoryUsed, 0), result.output, NoneV)

runTestCase(testCase, outcome, testNumber) ==
  LET result == outcome.res IN
  IF outcome.thrown
  THEN TestCaseResult(testNumber, FALSE, "Runtime Error", 0, 0, NoneV,
                      Some("Unknown error"))
  ELSE IF ~result.success
  THEN TestCaseResult(testNumber, FALSE,
                      OrElse(result.verdict, "Runtime Error"),
                      OrElse(result.executionTime, 0),
                      OrElse(result.memoryUsed, 0), NoneV, result.error)
  ELSE IF OrElse(result.executionTime, 0) # 0
          /\ Get(result.executionTime) > testCase.timeLimit
  THEN TestCaseResult(testNumber, FALSE, "Time Limit Exceeded",
                      Get(result.executionTime),
                      OrElse(result.memoryUsed, 0), NoneV, NoneV)
  ELSE LET outputMatches ==
             compareOutput(OrElse(result.output, <<>>),
                           testCase.expectedOutput, JudgeMode)
       IN TestCaseResult(testNumber, outputMatches,
                         IF outputMatches THEN "Accepted" ELSE "Wrong Answer",
                         OrElse(result.executionTime, 0),
                         OrElse(result.memoryUsed, 0), result.output, NoneV)

MathMax(S) == IF S = {} THEN NegInfinity
              ELSE CHOOSE m \in S : \A x \in S : x <= m

Verdict(status, passedTests, totalTests, maxTime, maxMemory, failedTestCase, errorMessage) ==
  [status |-> status, passedTests |-> passedTests, totalTests |-> totalTests,
   maxTime |-> maxTime, maxMemory |-> maxMemory,
   failedTestCase |-> failedTestCase, errorMessage |-> errorMessage]

\* generateVerdict with some() in place of every()
generateVerdictSome(results, totalTests) ==
  LET idx == 1..Len(results)
      allPassed == \E i \in idx : results[i].passed
      maxTime == MathMax({results[i].executionTime : i \in idx})
      maxMemory == MathMax({results[i].memoryUsed : i \in idx})
  IN IF allPassed \/ idx = {}
     THEN Verdict("Accepted", Len(results), totalTests, maxTime, maxMemory,
                  NoneV, NoneV)
     ELSE LET f == CHOOSE i \in idx :
                     ~results[i].passed /\ \A j \in 1..(i - 1) : results[j].passed
              firstFailure == results[f]
          IN Verdict(firstFailure.verdict,
                     Cardinality({i \in idx : results[i].passed}),
                     totalTests, maxTime, maxMemory,
                     Some(firstFailure.testCaseNumber), firstFailure.error)

\* generateVerdict counting every result as passed (results.length)
generateVerdictCountsAll(results, totalTests) ==
  LET idx == 1..Len(results)
      allPassed == \A i \in idx : results[i].passed
      maxTime == MathMax({results[i].executionTime : i \in idx})
      maxMemory == MathMax({results[i].memoryUsed : i \in idx})
  IN IF allPassed
     THEN Verdict("Accepted", Len(results), totalTests, maxTime, maxMemory,
                  NoneV, NoneV)
     ELSE LET f == CHOOSE i \in idx :
                     ~results[i].passed /\ \A j \in 1..(i - 1) : results[j].passed
              firstFailure == results[f]
          IN Verdict(firstFailure.verdict, Len(results),
                     totalTests, maxTime, maxMemory,
                     Some(firstFailure.testCaseNumber), firstFailure.error)

generateVerdict(results, totalTests) ==
  LET idx == 1..Len(results)
      allPassed == \A i \in idx : results[i].passed
      maxTime == MathMax({results[i].executionTime : i \in idx})
      maxMemory == MathMax({results[i].memoryUsed : i \in idx})
  IN IF allPassed
     THEN Verdict("Accepted", Len(results), totalTests, maxTime, maxMemory,
                  NoneV, NoneV)
     ELSE LET f == CHOOSE i \in idx :
                     ~results[i].passed /\ \A j \in 1..(i - 1) : results[j].passed
              firstFailure == results[f]
          IN Verdict(firstFailure.verdict,
                     Cardinality({i \in idx : results[i].passed}),
                     totalTests, maxTime, maxMemory,
                     Some(firstFailure.testCaseNumber), firstFailure.error)

\* The activation of evaluate: pc "loop" while a runTestCase is awaited,
\* "returned" once the verdict is produced.  log holds, per call of
\* executeFunction, what it gave.
JudgeIdle ==
  [pc |-> "idle", testCases |-> <<>>, results |-> <<>>, log |-> <<>>,
   verdict |-> NoneV]

evaluateCall(testCases) ==
  IF Len(testCases) = 0
  THEN [pc |-> "returned", testCases |-> testCases, results |-> <<>>,
        log |-> <<>>, verdict |-> Some(generateVerdict(<<>>, 0))]
  ELSE [pc |-> "loop", testCases |-> testCases, results |-> <<>>,
        log |-> <<>>, verdict |-> NoneV]

\* the loop without its break: every test case is run
evaluateStepNoBreak(j, outcome) ==
  LET i == Len(j.results)
      result == runTestCase(j.testCases[i + 1], outcome, i + 1)
      results == Append(j.results, result)
  IN IF i + 1 = Len(j.testCases)
     THEN [j EXCEPT !.pc = "returned", !.results = results,
                    !.log = Append(@, outcome),
                    !.verdict = Some(generateVerdict(results, Len(j.testCases)))]
     ELSE [j EXCEPT !.results = results, !.log = Append(@, outcome)]

\* the loop with a retry: the first run that fails is thrown away and its
\* test case is run again
evaluateStepRetry(j, outcome) ==
  LET i == Len(j.results)
      result == runTestCase(j.testCases[i + 1], outcome, i + 1)
      results == Append(j.results, result)
  IN IF ~result.passed /\ Len(j.log) = Len(j.results)
     THEN [j EXCEPT !.log = Append(@, outcome)]
     ELSE IF ~result.passed \/ i + 1 = Len(j.testCases)
     THEN [j EXCEPT !.pc = "returned", !.results = results,
                    !.log = Append(@, outcome),
                    !.verdict = Some(generateVerdict(results, Len(j.testCases)))]
     ELSE [j EXCEPT !.results = results, !.log = Append(@, outcome)]

\* One iteration of the for loop of evaluate, resumed with executeFunction's
\* outcome for test case i + 1
evaluateStep(j, outcome) ==
  LET i == Len(j.results)
      result == runTestCase(j.testCases[i + 1], outcome, i + 1)
      results == Append(j.results, result)
  IN IF ~result.passed \/ i + 1 = Len(j.testCases)
     THEN [j EXCEPT !.pc = "returned", !.results = results,
                    !.log = Append(@, outcome),
                    !.verdict = Some(generateVerdict(results, Len(j.testCases)))]
     ELSE [j EXCEPT !.results = results, !.log = Append(@, outcome)]

----------------------------------------------------------------------------
(* StrategyRouter *)

\* Source code is a sequence of tokens: characters, loop keywords and calls
\* the router's patterns look for.
LoopKeywords == {"for", "while", "do"}
WordTokens == LoopKeywords \cup {"x"}
UnsafeTokens == {"open(", "socket", "fork(", "child_process"}

TokLen(t) ==
  CASE t = "for" -> 3 [] t = "while" -> 5 [] t = "do" -> 2
    [] t = "open(" -> 5 [] t = "socket" -> 6 [] t = "fork(" -> 5
    [] t = "child_process" -> 13 [] OTHER -> 1

RECURSIVE codeLength(_)
codeLength(code) ==
  IF code = <<>> THEN 0 ELSE TokLen(Head(code)) + codeLength(Tail(code))

\* matches of /\b(for|while|do)\b/g
loopCount(code) ==
  Cardinality({i \in 1..Len(code) :
     /\ code[i] \in LoopKeywords
     /\ (i = 1 \/ code[i - 1] \notin WordTokens)
     /\ (i = Len(code) \/ code[i + 1] \notin WordTokens)})

\* /function\s+\w+\s*\([^)]*\)\s*{[^}]*\1/g: with no group 1 the \1 is the
\* character U+0001, which no token of the model contains
recursionIndicators(code) == 0

\* analyzeCode without its hasProcessSpawn pattern
analyzeCodeNoSpawn(code, language) ==
  LET hasUnsafeOperations ==
        \E i \in 1..Len(code) : code[i] \in UnsafeTokens \ {"fork("}
      loops == loopCount(code)
      rec == recursionIndicators(code)
  IN [complexity |-> IF loops > 5 \/ rec > 2 THEN "high"
                     ELSE IF loops > 2 THEN "medium" ELSE "low",
      hasUnsafeOperations |-> hasUnsafeOperations,
      estimatedMemory |-> codeLength(code) * 100 + loops * LoopMemory,
      estimatedCPU |-> loops * 100 + rec * 200,
      requiresCompilation |-> language \in {"cpp", "rust"},
      canRunInBrowser |-> language \in {"javascript", "python"}
                          /\ ~hasUnsafeOperations]

analyzeCode(code, language) ==
  LET hasUnsafeOperations == \E i \in 1..Len(code) : code[i] \in UnsafeTokens
      loops == loopCount(code)
      rec == recursionIndicators(code)
  IN [complexity |-> IF loops > 5 \/ rec > 2 THEN "high"
                     ELSE IF loops > 2 THEN "medium" ELSE "low",
      hasUnsafeOperations |-> hasUnsafeOperations,
      estimatedMemory |-> codeLength(code) * 100 + loops * LoopMemory,
      estimatedCPU |-> loops * 100 + rec * 200,
      requiresCompilation |-> language \in {"cpp", "rust"},
      canRunInBrowser |-> language \in {"javascript", "python"}
                          /\ ~hasUnsafeOperations]

\* estimatedCost is in units of 0.0001
Strategy(type, reason, estimatedCost, estimatedLatency) ==
  [type |-> type, reason |-> reason, estimatedCost |-> estimatedCost,
   estimatedLatency |-> estimatedLatency]

\* selectStrategy with the medium-complexity rule tested before the
\* complex-or-unsafe rule
selectStrategyMediumFirst(analysis, serverLoad) ==
  IF /\ analysis.canRunInBrowser
     /\ ~analysis.hasUnsafeOperations
     /\ analysis.complexity = "low"
     /\ analysis.estimatedMemory < ClientMemoryCeiling
  THEN Strategy("client", "Safe, simple code suitable for browser execution", 0, 100)
  ELSE IF /\ analysis.canRunInBrowser
          /\ ~analysis.hasUnsafeOperations
          /\ serverLoad > OverloadThreshold
  THEN Strategy("client", "Server overloaded, routing to client-side", 0, 200)
  ELSE IF analysis.complexity = "medium"
  THEN Strategy("hybrid", "Medium complexity, using pre-warmed containers", 5, 1000)
  ELSE IF analysis.hasUnsafeOperations \/ analysis.complexity = "high"
  THEN Strategy("server", "Complex or unsafe code requires server-side isolation", 10, 2000)
  ELSE Strategy("server", "Default server-side execution", 10, 2000)

selectStrategy(analysis, serverLoad) ==
  IF /\ analysis.canRunInBrowser
     /\ ~analysis.hasUnsafeOperations
     /\ analysis.complexity = "low"
     /\ analysis.estimatedMemory < ClientMemoryCeiling
  THEN Strategy("client", "Safe, simple code suitable for browser execution", 0, 100)
  ELSE IF /\ analysis.canRunInBrowser
          /\ ~analysis.hasUnsafeOperations
          /\ serverLoad > OverloadThreshold
  THEN Strategy("client", "Server overloaded, routing to client-side", 0, 200)
  ELSE IF analysis.hasUnsafeOperations \/ analysis.complexity = "high"
  THEN Strategy("server", "Complex or unsafe code requires server-side isolation", 10, 2000)
  ELSE IF analysis.complexity = "medium"
  THEN Strategy("hybrid", "Medium complexity, using pre-warmed containers", 5, 1000)
  ELSE Strategy("server", "Default server-side execution", 10, 2000)

----------------------------------------------------------------------------
(* Inputs of the model *)

Workers == 1..NumWorkers

Request(code, language, isCustomTest) ==
  [code |-> code, language |-> language, userId |-> "demo-user",
   problemId |-> "demo-problem", isCustomTest |-> isCustomTest]

\* Requests a client sends: empty and whitespace-only code, simple code
\* flagged as a custom test, code with loops
Requests ==
  { Request(<<>>, "javascript", FALSE),
    Request(<<" ", "\n">>, "python", TRUE),
    Request(<<"x">>, "javascript", TRUE),
    Request(<<"for", " ", "for", " ", "for">>, "cpp", FALSE) }

\* The test cases processSubmission judges every submission with
ProblemTestCases == << TestCase(<<"5">>, <<"1", "2", "0">>, TestTimeLimit) >>

\* The limits processSubmission hands to executeInContainer
RunLimits == [timeLimit |-> RunTimeLimit]

Outputs == { <<"1", "2", "0", "\n">>, <<"5">> }
ElapsedTimes == {0, TestTimeLimit, TestTimeLimit + 1, RunTimeLimit}

ContainerBehaviours ==
  { Behaviour("end", o, t) : o \in Outputs, t \in ElapsedTimes }
    \cup { Behaviour("hang", <<>>, 0), Behaviour("error", <<>>, 0) }

\* The behaviours the workers' runs draw from: a correct and a wrong output
\* within the test case's limit, a correct output after it, and a run the
\* orchestrator's timer ends
WorkerBehaviours ==
  { Behaviour("end", <<"1", "2", "0", "\n">>, TestTimeLimit),
    Behaviour("end", <<"5">>, TestTimeLimit),
    Behaviour("end", <<"1", "2", "0", "\n">>, TestTimeLimit + 1),
    Behaviour("hang", <<>>, 0) }

----------------------------------------------------------------------------
(* SubmissionRepository *)

Row(sub) ==
  [userId |-> sub.userId, problemId |-> sub.problemId, code |-> sub.code,
   language |-> sub.language, status |-> sub.status,
   strategy |-> sub.executionStrategy, verdict |-> NoneV,
   testResults |-> NoneV]

\* INSERT INTO submissions
create(rows, sub) == rows @@ (sub.id :> Row(sub))

\* UPDATE submissions SET status, verdict, test_results WHERE id
update(rows, sub) ==
  IF sub.id \in DOMAIN rows
  THEN [rows EXCEPT ![sub.id].status = sub.status,
                    ![sub.id].verdict = sub.verdict,
                    ![sub.id].testResults = Some(sub.testResults)]
  ELSE rows

\* What node-postgres hands over for a column of type JSONB (verdict,
\* execution_strategy, test_results): the value its type parser has already
\* parsed, no longer the text that update and create wrote
jsonb(v) == [type |-> "object", value |-> v]

\* JSON.parse(x): the value a JSON text denotes; an argument that is not a
\* string is converted to one ("[object Object]", "" for an empty array),
\* which is no JSON text, and SyntaxError is thrown
JSONparse(x) ==
  IF x.type = "string"
  THEN [thrown |-> FALSE, value |-> Some(x.value)]
  ELSE [thrown |-> TRUE, value |-> NoneV]

\* SELECT * FROM submissions WHERE id: null when there is no row, else the
\* submission built of the row's columns
findById(rows, id) ==
  IF id \notin DOMAIN rows
  THEN [thrown |-> FALSE, submission |-> NoneV]
  ELSE LET row == rows[id]
           verdict == IF IsSome(row.verdict)
                      THEN JSONparse(jsonb(Get(row.verdict)))
                      ELSE [thrown |-> FALSE, value |-> NoneV]
           executionStrategy == JSONparse(jsonb(row.strategy))
           testResults == IF IsSome(row.testResults)
                          THEN JSONparse(jsonb(Get(row.testResults)))
                          ELSE [thrown |-> FALSE, value |-> Some(<<>>)]
       IN IF verdict.thrown \/ executionStrategy.thrown \/ testResults.thrown
          THEN [thrown |-> TRUE, submission |-> NoneV]
          ELSE [thrown |-> FALSE,
                submission |->
                  Some([id |-> id, userId |-> row.userId,
                        problemId |-> row.problemId, code |-> row.code,
                        language |-> row.language, status |-> row.status,
                        verdict |-> verdict.value,
                        executionStrategy |-> Get(executionStrategy.value),
                        testResults |-> Get(testResults.value)])]

----------------------------------------------------------------------------
(* SubmissionQueue *)

\* an enqueue that pushes the submission twice
enqueueTwice(q, sub) == Append(Append(q, sub), sub)

\* rpush of the serialised submission
enqueue(q, sub) == Append(q, sub)

\* a dequeue that reads the head (lindex) and leaves it in the list
dequeueRestKeepsHead(q) == q

\* a dequeue that takes the entry pushed last (rpop)
dequeueHeadLast(q) == q[Len(q)]

\* lpop: the head and the rest
dequeueHead(q) == Head(q)
dequeueRest(q) == Tail(q)

getQueueDepth(q) == Len(q)

\* lrange 0 -1, findIndex of the first entry with the id, position + 1
getQueuePosition(q, submissionId) ==
  LET found == {i \in 1..Len(q) : q[i].id = submissionId}
  IN IF found = {} THEN 0 - 1
     ELSE CHOOSE i \in found : \A k \in found : i <= k

----------------------------------------------------------------------------
(* State after construction *)

WorkerIdle == [pc |-> "idle", sub |-> NoneV, env |-> NoneV]
CmpIdle == [pc |-> "idle", actual |-> <<>>, expected |-> <<>>,
            mode |-> JudgeMode, result |-> NoneV]
RouteIdle == [pc |-> "idle", code |-> <<>>, language |-> "javascript",
              analysis |-> NoneV, load |-> 0, strategy |-> NoneV]
CustomIdle == [pc |-> "idle", env |-> NoneV, result |-> NoneV]

\* The callers of the queue: each enqueues one submission; `pushed` is the
\* order of the rpush commands, `deq` what the calls of dequeue returned
QueueClients == 1..MaxCalls
QueueIdle ==
  [enq |-> [c \in QueueClients |-> [pc |-> "idle", at |-> 0, depth |-> NoneV]],
   pushed |-> <<>>, deq |-> <<>>]

Init ==
  /\ repo = <<>>
  /\ queue = <<>>
  /\ nextId = 0
  /\ submits = <<>>
  /\ rejected = {}
  /\ workers = [w \in Workers |-> WorkerIdle]
  /\ judge = [w \in Workers |-> JudgeIdle]
  /\ pool = {}
  /\ executed = {}
  /\ returned = {}
  /\ statusUpdates = <<>>
  /\ violations = {}
  /\ qcalls = QueueIdle
  /\ cmp = CmpIdle
  /\ route = RouteIdle
  /\ custom = CustomIdle

Without(f, k) == [x \in DOMAIN f \ {k} |-> f[x]]

\* an identifier drawn without regard to the environments in the pool
containerIdReused == CHOOSE n \in 1..(Cardinality(pool) + 1) : TRUE

\* uuidv4() for a container: an identifier no environment in the pool has
containerId == CHOOSE n \in 1..(Cardinality(pool) + 1) : n \notin pool

----------------------------------------------------------------------------
(* ExecutionController.submit *)

\* the check without its trim(): only the empty string is refused
codeIsEmptyNoTrim(code) == Len(code) = 0

\* !request.code || request.code.trim().length === 0
codeIsEmpty(code) == Len(code) = 0 \/ Len(trim(code)) = 0

Submission(id, req, strategy) ==
  [id |-> id, userId |-> req.userId, problemId |-> req.problemId,
   code |-> req.code, language |-> req.language, status |-> "Queued",
   executionStrategy |-> strategy, testResults |-> <<>>, verdict |-> NoneV]

\* submit up to its call of repository.create: validation, uuidv4,
\* analyzeCode, getQueueDepth, selectStrategy, the submission object
submitUpTo(req, max) ==
  IF codeIsEmpty(req.code)
  THEN /\ rejected' = rejected \cup {"Code cannot be empty"}
       /\ UNCHANGED <<repo, queue, nextId, submits, workers, judge, pool,
                      executed, returned, cmp,
                 route, custom,
                 statusUpdates, violations, qcalls>>
  ELSE /\ nextId < max
       /\ LET submissionId == nextId + 1
              analysis == analyzeCode(req.code, req.language)
              strategy == selectStrategy(analysis, ServerLoad)
          IN /\ nextId' = submissionId
             /\ submits' = submits @@
                  (submissionId :>
                     [pc |-> "create",
                      sub |-> Submission(submissionId, req, strategy)])
       /\ UNCHANGED <<repo, queue, rejected, workers, judge, pool,
                      executed, returned, cmp,
                 route, custom,
                 statusUpdates, violations, qcalls>>

\* submit, called at most MaxSubmits times with code that is not empty
submit(req) == submitUpTo(req, MaxSubmits)

\* await this.repository.create(submission): the row is inserted, or the
\* query fails and submit throws
submitCreate(id) ==
  /\ id \in DOMAIN submits
  /\ submits[id].pc = "create"
  /\ \/ /\ repo' = create(repo, submits[id].sub)
        /\ submits' = [submits EXCEPT ![id].pc = "enqueue"]
     \/ /\ submits' = Without(submits, id)
        /\ UNCHANGED repo
  /\ UNCHANGED <<queue, nextId, rejected, workers, judge, pool,
                 executed, returned, cmp,
                 route, custom,
                 statusUpdates, violations, qcalls>>

\* await this.queue.enqueue(submission): rpush, or redis fails and submit
\* throws
submitEnqueue(id) ==
  /\ id \in DOMAIN submits
  /\ submits[id].pc = "enqueue"
  /\ \/ /\ queue' = enqueue(queue, submits[id].sub)
        /\ submits' = [submits EXCEPT ![id].pc = "depth"]
     \/ /\ submits' = Without(submits, id)
        /\ UNCHANGED queue
  /\ UNCHANGED <<repo, nextId, rejected, workers, judge, pool,
                 executed, returned, cmp,
                 route, custom,
                 statusUpdates, violations, qcalls>>

\* enqueue's getQueueDepth returns and submit returns submissionId, or llen
\* fails and submit throws
submitReturn(id) ==
  /\ id \in DOMAIN submits
  /\ submits[id].pc = "depth"
  /\ submits' = Without(submits, id)
  /\ \/ returned' = returned \cup {id}
     \/ UNCHANGED returned
  /\ UNCHANGED <<repo, queue, nextId, rejected, workers, judge, pool,
                 executed, cmp,
                 route, custom,
                 statusUpdates, violations, qcalls>>

----------------------------------------------------------------------------
(* The worker loop and ExecutionController.processSubmission *)

\* A worker takes the next submission off the queue (queue.dequeue)
workerDequeue(w) ==
  /\ workers[w].pc = "idle"
  /\ Len(queue) > 0
  /\ workers' = [workers EXCEPT ![w] =
                   [pc |-> "process", sub |-> Some(dequeueHead(queue)),
                    env |-> NoneV]]
  /\ queue' = dequeueRest(queue)
  /\ UNCHANGED <<repo, nextId, submits, rejected, judge, pool,
                 executed, returned, cmp,
                 route, custom,
                 statusUpdates, violations, qcalls>>

\* submission.status = 'Running'; repository.update is called
processSubmission(w) ==
  /\ workers[w].pc = "process"
  /\ workers' = [workers EXCEPT ![w].pc = "updateRunning",
                                ![w].sub[1].status = "Running"]
  /\ UNCHANGED <<repo, queue, nextId, submits, rejected, judge, pool,
                 executed, returned, cmp,
                 route, custom,
                 statusUpdates, violations, qcalls>>

\* await this.repository.update(submission) of line 103: done, and
\* createExecutionEnvironment is called; or it fails and processSubmission
\* throws before its try block
updateRunning(w) ==
  /\ workers[w].pc = "updateRunning"
  /\ \/ /\ repo' = update(repo, Get(workers[w].sub))
        /\ workers' = [workers EXCEPT ![w].pc = "createEnv"]
     \/ /\ workers' = [workers EXCEPT ![w] = WorkerIdle]
        /\ UNCHANGED repo
  /\ UNCHANGED <<queue, nextId, submits, rejected, judge, pool,
                 executed, returned, cmp,
                 route, custom,
                 statusUpdates, violations, qcalls>>

\* await createExecutionEnvironment: the container is created, started and
\* put into workerPool, and evaluate starts its first run; or docker fails
\* and processSubmission throws before its try block
createExecutionEnvironment(w) ==
  /\ workers[w].pc = "createEnv"
  /\ \/ /\ pool' = pool \cup {containerId}
        /\ workers' = [workers EXCEPT ![w].pc = "evaluate",
                                      ![w].env = Some(containerId)]
        /\ judge' = [judge EXCEPT ![w] = evaluateCall(ProblemTestCases)]
        /\ executed' = IF Len(ProblemTestCases) > 0
                       THEN executed \cup {Get(workers[w].sub).id}
                       ELSE executed
     \/ /\ workers' = [workers EXCEPT ![w] = WorkerIdle]
        /\ UNCHANGED <<judge, pool, executed>>
  /\ UNCHANGED <<repo, queue, nextId, submits, rejected, returned, cmp,
                 route, custom,
                 statusUpdates, violations, qcalls>>

\* executeInContainer returns to runTestCase, and evaluate goes on to the
\* next test case or returns the verdict
runInContainer(w) ==
  /\ workers[w].pc = "evaluate"
  /\ judge[w].pc = "loop"
  /\ \E beh \in WorkerBehaviours :
       judge' = [judge EXCEPT ![w] =
                   evaluateStep(@, containerOutcome(beh, RunLimits))]
  /\ UNCHANGED <<repo, queue, nextId, submits, rejected, workers, pool,
                 executed, returned, cmp,
                 route, custom,
                 statusUpdates, violations, qcalls>>

\* setCompleted without the assignment submission.verdict = verdict
setCompletedNoVerdict(w) ==
  /\ workers[w].pc = "evaluate"
  /\ judge[w].pc = "returned"
  /\ workers' = [workers EXCEPT ![w].pc = "updateCompleted",
                                ![w].sub[1].status = "Completed"]
  /\ UNCHANGED <<repo, queue, nextId, submits, rejected, judge, pool,
                 executed, returned, cmp,
                 route, custom,
                 statusUpdates, violations, qcalls>>

\* evaluate has returned: submission.verdict = verdict; status = 'Completed';
\* repository.update is called
setCompleted(w) ==
  /\ workers[w].pc = "evaluate"
  /\ judge[w].pc = "returned"
  /\ workers' = [workers EXCEPT ![w].pc = "updateCompleted",
                                ![w].sub[1].verdict = judge[w].verdict,
                                ![w].sub[1].status = "Completed"]
  /\ UNCHANGED <<repo, queue, nextId, submits, rejected, judge, pool,
                 executed, returned, cmp,
                 route, custom,
                 statusUpdates, violations, qcalls>>

\* the update of line 135 writes the row and then rejects: the catch block
\* runs after Completed was persisted
updateCompletedThenFails(w) ==
  /\ workers[w].pc = "updateCompleted"
  /\ repo' = update(repo, Get(workers[w].sub))
  /\ workers' = [workers EXCEPT ![w].pc = "updateFailed",
                                ![w].sub[1].status = "Failed"]
  /\ UNCHANGED <<queue, nextId, submits, rejected, judge, pool,
                 executed, returned, cmp, route, custom,
                 statusUpdates, violations, qcalls>>

\* a catch block that marks the submission Cancelled instead of Failed
updateCompletedCancels(w) ==
  /\ workers[w].pc = "updateCompleted"
  /\ \/ /\ repo' = update(repo, Get(workers[w].sub))
        /\ workers' = [workers EXCEPT ![w].pc = "destroy"]
     \/ /\ workers' = [workers EXCEPT ![w].pc = "updateFailed",
                                      ![w].sub[1].status = "Cancelled"]
        /\ UNCHANGED repo
  /\ UNCHANGED <<queue, nextId, submits, rejected, judge, pool,
                 executed, returned, cmp, route, custom,
                 statusUpdates, violations, qcalls>>

\* await this.repository.update(submission) of line 135: done; or it fails
\* and the catch block sets status = 'Failed' and calls update again
updateCompleted(w) ==
  /\ workers[w].pc = "updateCompleted"
  /\ \/ /\ repo' = update(repo, Get(workers[w].sub))
        /\ workers' = [workers EXCEPT ![w].pc = "destroy"]
     \/ /\ workers' = [workers EXCEPT ![w].pc = "updateFailed",
                                      ![w].sub[1].status = "Failed"]
        /\ UNCHANGED repo
  /\ UNCHANGED <<queue, nextId, submits, rejected, judge, pool,
                 executed, returned, cmp,
                 route, custom,
                 statusUpdates, violations, qcalls>>

\* the catch block without the finally block after it: the error is
\* rethrown and processSubmission ends
updateFailedNoFinally(w) ==
  /\ workers[w].pc = "updateFailed"
  /\ \/ repo' = update(repo, Get(workers[w].sub))
     \/ UNCHANGED repo
  /\ workers' = [workers EXCEPT ![w] = WorkerIdle]
  /\ judge' = [judge EXCEPT ![w] = JudgeIdle]
  /\ UNCHANGED <<queue, nextId, submits, rejected, pool,
                 executed, returned, cmp, route, custom,
                 statusUpdates, violations, qcalls>>

\* await this.repository.update(submission) of line 139, done or failed;
\* the error is rethrown through the finally block
updateFailed(w) ==
  /\ workers[w].pc = "updateFailed"
  /\ \/ repo' = update(repo, Get(workers[w].sub))
     \/ UNCHANGED repo
  /\ workers' = [workers EXCEPT ![w].pc = "destroy"]
  /\ UNCHANGED <<queue, nextId, submits, rejected, judge, pool,
                 executed, returned, cmp,
                 route, custom,
                 statusUpdates, violations, qcalls>>

\* finally: await destroyEnvironment(env); stop and remove succeed and the
\* environment leaves workerPool, or one fails and the error is only logged.
\* processSubmission ends and the worker goes back to the queue.
destroyEnvironment(w) ==
  /\ workers[w].pc = "destroy"
  /\ \/ pool' = pool \ {Get(workers[w].env)}
     \/ UNCHANGED pool
  /\ workers' = [workers EXCEPT ![w] = WorkerIdle]
  /\ judge' = [judge EXCEPT ![w] = JudgeIdle]
  /\ UNCHANGED <<repo, queue, nextId, submits, rejected, executed,
                 returned, cmp,
                 route, custom,
                 statusUpdates, violations, qcalls>>

\* ExecutionController.getSubmission: what a caller gets at this moment
getSubmission(id) == findById(repo, id)

Next ==
  \/ \E req \in Requests : submit(req)
  \/ \E id \in 1..MaxSubmits : submitCreate(id)
  \/ \E id \in 1..MaxSubmits : submitEnqueue(id)
  \/ \E id \in 1..MaxSubmits : submitReturn(id)
  \/ \E w \in Workers : workerDequeue(w)
  \/ \E w \in Workers : processSubmission(w)
  \/ \E w \in Workers : updateRunning(w)
  \/ \E w \in Workers : createExecutionEnvironment(w)
  \/ \E w \in Workers : runInContainer(w)
  \/ \E w \in Workers : setCompleted(w)
  \/ \E w \in Workers : updateCompleted(w)
  \/ \E w \in Workers : updateFailed(w)
  \/ \E w \in Workers : destroyEnvironment(w)

Spec == Init /\ [][Next]_vars

----------------------------------------------------------------------------
(* ExecutionController.runCustomTest *)

\* What the container does with the run of a custom test
CustomBehaviours ==
  { Behaviour("end", <<"1", "2", "0", "\n">>, TestTimeLimit),
    Behaviour("hang", <<>>, 0),
    Behaviour("error", <<>>, 0) }

\* runCustomTest is called: createExecutionEnvironment is called
runCustomTest ==
  /\ custom.pc = "idle"
  /\ Cardinality(pool) < MaxPool
  /\ custom' = [custom EXCEPT !.pc = "createEnv"]
  /\ UNCHANGED <<repo, queue, nextId, submits, rejected, workers, judge,
                 pool, executed, returned, cmp, route,
                 statusUpdates, violations, qcalls>>

\* await createExecutionEnvironment: the environment is in workerPool and
\* executeInContainer is called; or docker fails and runCustomTest throws
customCreateEnv ==
  /\ custom.pc = "createEnv"
  /\ \/ /\ pool' = pool \cup {containerId}
        /\ custom' = [custom EXCEPT !.pc = "execute",
                                    !.env = Some(containerId)]
     \/ /\ custom' = CustomIdle
        /\ UNCHANGED pool
  /\ UNCHANGED <<repo, queue, nextId, submits, rejected, workers, judge,
                 executed, returned, cmp, route,
                 statusUpdates, violations, qcalls>>

\* await executeInContainer: its result, of a run that succeeded or failed;
\* the finally block calls destroyEnvironment
customExecute ==
  /\ custom.pc = "execute"
  /\ \E beh \in CustomBehaviours :
       custom' = [custom EXCEPT !.pc = "destroy",
                                !.result = Some(executeInContainer(beh, RunLimits))]
  /\ UNCHANGED <<repo, queue, nextId, submits, rejected, workers, judge,
                 pool, executed, returned, cmp, route,
                 statusUpdates, violations, qcalls>>

\* finally: await destroyEnvironment(env), done or failed and logged;
\* runCustomTest returns the result
customDestroy ==
  /\ custom.pc = "destroy"
  /\ \/ pool' = pool \ {Get(custom.env)}
     \/ UNCHANGED pool
  /\ custom' = CustomIdle
  /\ UNCHANGED <<repo, queue, nextId, submits, rejected, workers, judge,
                 executed, returned, cmp, route,
                 statusUpdates, violations, qcalls>>

NextCustom ==
  \/ runCustomTest
  \/ customCreateEnv
  \/ customExecute
  \/ customDestroy

\* The controller with both entry points of the API server
ControllerSpec == Init /\ [][Next \/ NextCustom]_vars

----------------------------------------------------------------------------
(* Scheduling: an awaited call settles, and a worker waiting on a non-empty
   queue gets a submission *)

Fairness ==
  /\ \A id \in 1..MaxSubmits :
       /\ WF_vars(submitCreate(id))
       /\ WF_vars(submitEnqueue(id))
       /\ WF_vars(submitReturn(id))
  /\ \A w \in Workers :
       /\ WF_vars(workerDequeue(w))
       /\ WF_vars(processSubmission(w))
       /\ WF_vars(updateRunning(w))
       /\ WF_vars(createExecutionEnvironment(w))
       /\ WF_vars(runInContainer(w))
       /\ WF_vars(setCompleted(w))
       /\ WF_vars(updateCompleted(w))
       /\ WF_vars(updateFailed(w))
       /\ WF_vars(destroyEnvironment(w))

FairSpec == Spec /\ Fairness

\* The process of a worker dies while it holds a submission.  What it held
\* is kept as a record of what the dead worker had claimed; its environment
\* stays in the pool.
workerCrash(w) ==
  /\ workers[w].pc \notin {"idle", "crashed"}
  /\ workers' = [workers EXCEPT ![w].pc = "crashed"]
  /\ judge' = [judge EXCEPT ![w] = JudgeIdle]
  /\ UNCHANGED <<repo, queue, nextId, submits, rejected, pool,
                 executed, returned, cmp, route, custom,
                 statusUpdates, violations, qcalls>>

NextCrash == Next \/ \E w \in Workers : workerCrash(w)

CrashSpec == Init /\ [][NextCrash]_vars /\ Fairness

----------------------------------------------------------------------------
(* The workers and the custom tests over a queue that submit has filled *)

ValidRequests == {r \in Requests : ~codeIsEmpty(r.code)}

\* the submission submit makes of the i-th request
Submitted(i, req) ==
  Submission(i, req, selectStrategy(analyzeCode(req.code, req.language),
                                    ServerLoad))

\* The state after n calls of submit have returned, before any worker has
\* taken a submission
Queued(n, req) ==
  /\ repo = [i \in 1..n |-> Row(Submitted(i, req))]
  /\ queue = [i \in 1..n |-> Submitted(i, req)]
  /\ nextId = n
  /\ submits = <<>>
  /\ rejected = {}
  /\ workers = [w \in Workers |-> WorkerIdle]
  /\ judge = [w \in Workers |-> JudgeIdle]
  /\ pool = {}
  /\ executed = {}
  /\ returned = 1..n
  /\ statusUpdates = <<>>
  /\ violations = {}
  /\ qcalls = QueueIdle
  /\ cmp = CmpIdle
  /\ route = RouteIdle
  /\ custom = CustomIdle

NextWorkers ==
  \/ \E w \in Workers : workerDequeue(w)
  \/ \E w \in Workers : processSubmission(w)
  \/ \E w \in Workers : updateRunning(w)
  \/ \E w \in Workers : createExecutionEnvironment(w)
  \/ \E w \in Workers : runInContainer(w)
  \/ \E w \in Workers : setCompleted(w)
  \/ \E w \in Workers : updateCompleted(w)
  \/ \E w \in Workers : updateFailed(w)
  \/ \E w \in Workers : destroyEnvironment(w)

\* the request whose submissions fill the queue
SandboxRequest == CHOOSE r \in ValidRequests : r.language = "javascript"

InitSandbox == \E n \in 0..MaxSubmits : Queued(n, SandboxRequest)

SandboxSpec == InitSandbox /\ [][NextWorkers \/ NextCustom]_vars

----------------------------------------------------------------------------
(* Intake on its own: calls of submit that interleave at their awaits *)

NextIntake ==
  \/ \E req \in Requests : submitUpTo(req, MaxCalls)
  \/ \E id \in 1..MaxCalls : submitCreate(id)
  \/ \E id \in 1..MaxCalls : submitEnqueue(id)
  \/ \E id \in 1..MaxCalls : submitReturn(id)

IntakeSpec == Init /\ [][NextIntake]_vars

----------------------------------------------------------------------------
(* SubmissionQueue on its own: calls of enqueue and dequeue that interleave
   at their redis commands *)

\* enqueue: await rpush; its reply, the new length, is not used
queueEnqueue(c) ==
  /\ qcalls.enq[c].pc = "idle"
  /\ queue' = enqueue(queue, Submitted(c, SandboxRequest))
  /\ qcalls' = [qcalls EXCEPT !.enq[c].pc = "llen",
                              !.enq[c].at = Len(queue) + 1,
                              !.pushed = Append(@, c)]
  /\ UNCHANGED <<repo, nextId, submits, rejected, workers, judge, pool,
                 executed, returned, cmp, route, custom,
                 statusUpdates, violations>>

\* enqueue: return this.getQueueDepth(), a second command (llen)
queueEnqueueReturn(c) ==
  /\ qcalls.enq[c].pc = "llen"
  /\ qcalls' = [qcalls EXCEPT !.enq[c].pc = "done",
                              !.enq[c].depth = Some(getQueueDepth(queue))]
  /\ UNCHANGED <<repo, queue, nextId, submits, rejected, workers, judge,
                 pool, executed, returned, cmp, route, custom,
                 statusUpdates, violations>>

\* dequeue: lpop; null when the list is empty, else the parsed head
queueDequeue ==
  /\ Len(qcalls.deq) <= MaxCalls
  /\ IF Len(queue) = 0
     THEN /\ qcalls' = [qcalls EXCEPT !.deq = Append(@, NoneV)]
          /\ UNCHANGED queue
     ELSE /\ qcalls' = [qcalls EXCEPT
                          !.deq = Append(@, Some(dequeueHead(queue).id))]
          /\ queue' = dequeueRest(queue)
  /\ UNCHANGED <<repo, nextId, submits, rejected, workers, judge, pool,
                 executed, returned, cmp, route, custom,
                 statusUpdates, violations>>

NextQueue ==
  \/ \E c \in QueueClients : queueEnqueue(c)
  \/ \E c \in QueueClients : queueEnqueueReturn(c)
  \/ queueDequeue

QueueSpec == Init /\ [][NextQueue]_vars

----------------------------------------------------------------------------
(* Runs of code the sandbox refuses or the compiler rejects *)

\* What the process prints when the container denies it an operation (no
\* network, read-only root, pids limit), and what g++ or rustc print for a
\* source that does not compile.  Neither text holds the word stderr, so
\* collectOutput puts both into stdout.
PolicyDenial == <<"E", "P", "E", "R", "M", "\n">>
CompilerDiagnostic == <<"e", "r", "r", "o", "r", ":", "\n">>

\* In both cases the command ends and the stream with it
FaultBehaviours ==
  { Behaviour("end", PolicyDenial, TestTimeLimit),
    Behaviour("end", CompilerDiagnostic, TestTimeLimit) }

\* executeInContainer returns to runTestCase after such a run
runInContainerFault(w) ==
  /\ workers[w].pc = "evaluate"
  /\ judge[w].pc = "loop"
  /\ \E beh \in FaultBehaviours :
       judge' = [judge EXCEPT ![w] =
                   evaluateStep(@, containerOutcome(beh, RunLimits))]
  /\ UNCHANGED <<repo, queue, nextId, submits, rejected, workers, pool,
                 executed, returned, cmp, route, custom,
                 statusUpdates, violations, qcalls>>

NextFault == Next \/ \E w \in Workers : runInContainerFault(w)

FaultSpec == Init /\ [][NextFault]_vars

----------------------------------------------------------------------------
(* Runs in which a call to docker never settles *)

\* executeInContainer awaits writeToContainer, container.exec or exec.start
\* and docker never answers: the timer of collectOutput is not started yet,
\* so nothing ends the wait.  The worker stays at pc "blocked".
runInContainerBlocks(w) ==
  /\ workers[w].pc = "evaluate"
  /\ judge[w].pc = "loop"
  /\ workers' = [workers EXCEPT ![w].pc = "blocked"]
  /\ UNCHANGED <<repo, queue, nextId, submits, rejected, judge, pool,
                 executed, returned, cmp, route, custom,
                 statusUpdates, violations, qcalls>>

NextHang == Next \/ \E w \in Workers : runInContainerBlocks(w)

HangSpec == Init /\ [][NextHang]_vars /\ Fairness

----------------------------------------------------------------------------
(* JudgeEngine.evaluate on its own: any list of test cases, any results of
   the execute function *)

JudgeTestCases ==
  { TestCase(<<"5">>, e, t) :
      e \in { <<"5">>, <<"1", "2", "0">> }, t \in {TestTimeLimit, RunTimeLimit} }

TestCaseLists == UNION { [1..n -> JudgeTestCases] : n \in 0..MaxTests }

\* Results an execute function other than executeInContainer may give: no
\* verdict or a verdict of its own on failure, fields left undefined
OtherResults ==
  { ExecutionResult(FALSE, NoneV, NoneV, NoneV, NoneV, NoneV),
    ExecutionResult(FALSE, NoneV, Some("g++: error"), Some("Compilation Error"),
                    Some(TestTimeLimit), Some(1)),
    ExecutionResult(FALSE, NoneV, NoneV, Some("Time Limit Exceeded"),
                    Some(RunTimeLimit + 1), NoneV),
    ExecutionResult(TRUE, NoneV, NoneV, NoneV, NoneV, NoneV),
    ExecutionResult(TRUE, Some(<<"5", " ">>), NoneV, NoneV, NoneV, Some(1)),
    ExecutionResult(TRUE, Some(<<"5">>), NoneV, NoneV, Some(RunTimeLimit + 1),
                    Some(1)) }

RunOutcomes ==
  { containerOutcome(beh, RunLimits) : beh \in ContainerBehaviours }
    \cup { Outcome(FALSE, r, FALSE) : r \in OtherResults }
    \cup { Outcome(TRUE, ExecutionResult(FALSE, NoneV, NoneV, NoneV, NoneV, NoneV),
                   FALSE) }

JudgeWorker == CHOOSE w \in Workers : \A x \in Workers : w <= x

InitJudge ==
  /\ repo = <<>>
  /\ queue = <<>>
  /\ nextId = 0
  /\ submits = <<>>
  /\ rejected = {}
  /\ workers = [w \in Workers |-> WorkerIdle]
  /\ \E tcs \in TestCaseLists :
       judge = [w \in Workers |->
                  IF w = JudgeWorker THEN evaluateCall(tcs) ELSE JudgeIdle]
  /\ pool = {}
  /\ executed = {}
  /\ returned = {}
  /\ statusUpdates = <<>>
  /\ violations = {}
  /\ qcalls = QueueIdle
  /\ cmp = CmpIdle
  /\ route = RouteIdle
  /\ custom = CustomIdle

\* the awaited runTestCase of evaluate's loop completes
evaluateRun ==
  /\ judge[JudgeWorker].pc = "loop"
  /\ \E o \in RunOutcomes :
       judge' = [judge EXCEPT ![JudgeWorker] = evaluateStep(@, o)]
  /\ UNCHANGED <<repo, queue, nextId, submits, rejected, workers, pool,
                 executed, returned, cmp,
                 route, custom,
                 statusUpdates, violations, qcalls>>

NextJudge == evaluateRun

JudgeSpec == InitJudge /\ [][NextJudge]_vars

----------------------------------------------------------------------------
(* JudgeEngine.compareOutput on its own: any two strings, any mode *)

Alphabet == {"5", " ", "\n"}

Strings == UNION { [1..n -> Alphabet] : n \in 0..MaxStrLen }

InitCompare ==
  /\ repo = <<>>
  /\ queue = <<>>
  /\ nextId = 0
  /\ submits = <<>>
  /\ rejected = {}
  /\ workers = [w \in Workers |-> WorkerIdle]
  /\ judge = [w \in Workers |-> JudgeIdle]
  /\ pool = {}
  /\ executed = {}
  /\ returned = {}
  /\ statusUpdates = <<>>
  /\ violations = {}
  /\ qcalls = QueueIdle
  /\ route = RouteIdle
  /\ custom = CustomIdle
  /\ \E a \in Strings, e \in Strings, m \in Modes :
       cmp = [pc |-> "call", actual |-> a, expected |-> e, mode |-> m,
              result |-> NoneV]

compareCall ==
  /\ cmp.pc = "call"
  /\ cmp' = [cmp EXCEPT !.pc = "done",
                        !.result = Some(compareOutput(cmp.actual, cmp.expected,
                                                      cmp.mode))]
  /\ UNCHANGED <<repo, queue, nextId, submits, rejected, workers, judge,
                 pool, executed, returned,
                 route, custom,
                 statusUpdates, violations, qcalls>>

NextCompare == compareCall

CompareSpec == InitCompare /\ [][NextCompare]_vars

----------------------------------------------------------------------------
(* StrategyRouter on its own: analyzeCode of any code and language, and
   selectStrategy of any CodeAnalysis, under any server load *)

Languages == {"javascript", "python", "cpp", "rust"}

\* serverLoad in percent
Loads == {0, ServerLoad, OverloadThreshold, OverloadThreshold + 1, 100}

\* k loop statements, separated by spaces
RECURSIVE Loops(_)
Loops(k) ==
  IF k = 0 THEN <<>>
  ELSE IF k = 1 THEN <<"for">>
  ELSE Loops(k - 1) \o <<" ", IF k % 2 = 0 THEN "while" ELSE "do">>

\* code with up to MaxLoops loops, with or without an unsafe call after
\* them, and code where a loop keyword is part of a longer word
RouterCodes ==
  { Loops(k) \o u : k \in 0..MaxLoops,
                    u \in {<<>>} \cup { <<" ", t>> : t \in UnsafeTokens } }
    \cup { <<"for", "x", " ", "x", "do">> }

Analyses ==
  [complexity : {"low", "medium", "high"},
   hasUnsafeOperations : BOOLEAN,
   estimatedMemory : {0, ClientMemoryCeiling - 1, ClientMemoryCeiling},
   estimatedCPU : {0},
   requiresCompilation : BOOLEAN,
   canRunInBrowser : BOOLEAN]

InitRouter ==
  /\ repo = <<>>
  /\ queue = <<>>
  /\ nextId = 0
  /\ submits = <<>>
  /\ rejected = {}
  /\ workers = [w \in Workers |-> WorkerIdle]
  /\ judge = [w \in Workers |-> JudgeIdle]
  /\ pool = {}
  /\ executed = {}
  /\ returned = {}
  /\ statusUpdates = <<>>
  /\ violations = {}
  /\ qcalls = QueueIdle
  /\ cmp = CmpIdle
  /\ custom = CustomIdle
  /\ \E load \in Loads :
       \/ \E code \in RouterCodes, language \in Languages :
            route = [pc |-> "analyze", code |-> code, language |-> language,
                     analysis |-> NoneV, load |-> load, strategy |-> NoneV]
       \/ \E analysis \in Analyses :
            route = [pc |-> "select", code |-> <<>>, language |-> "javascript",
                     analysis |-> Some(analysis), load |-> load,
                     strategy |-> NoneV]

routeAnalyze ==
  /\ route.pc = "analyze"
  /\ route' = [route EXCEPT !.pc = "select",
                            !.analysis = Some(analyzeCode(route.code,
                                                          route.language))]
  /\ UNCHANGED <<repo, queue, nextId, submits, rejected, workers, judge,
                 pool, executed, returned, cmp, custom,
                 statusUpdates, violations, qcalls>>

routeSelect ==
  /\ route.pc = "select"
  /\ route' = [route EXCEPT !.pc = "done",
                            !.strategy = Some(selectStrategy(Get(route.analysis),
                                                             route.load))]
  /\ UNCHANGED <<repo, queue, nextId, submits, rejected, workers, judge,
                 pool, executed, returned, cmp, custom,
                 statusUpdates, violations, qcalls>>

NextRouter == routeAnalyze \/ routeSelect

RouterSpec == InitRouter /\ [][NextRouter]_vars

----------------------------------------------------------------------------
(* Properties of intake and of processSubmission *)

VerdictKinds ==
  {"Accepted", "Wrong Answer", "Time Limit Exceeded", "Memory Limit Exceeded",
   "Runtime Error", "Compilation Error", "Security Violation", "System Error"}

TerminalStatus == {"Completed", "Failed"}

\* code that is empty or consists only of whitespace
Blank(code) == \A i \in 1..Len(code) : code[i] \in Whitespace

\* every submission object there is: rows do not hold the object, so the
\* rows' codes are listed apart
LiveSubmissions ==
  { submits[id].sub : id \in DOMAIN submits }
    \cup { queue[i] : i \in 1..Len(queue) }
    \cup { Get(workers[w].sub) : w \in {x \in Workers : IsSome(workers[x].sub)} }

NoBlankSubmission ==
  /\ \A sub \in LiveSubmissions : ~Blank(sub.code)
  /\ \A id \in DOMAIN repo : ~Blank(repo[id].code)
  /\ nextId = 0 => (repo = <<>> /\ queue = <<>> /\ returned = {})

RejectionChangesNothing ==
  rejected' # rejected =>
    /\ repo' = repo /\ queue' = queue /\ nextId' = nextId
    /\ submits' = submits /\ returned' = returned

\* C1: submit of empty or whitespace-only code fails with the validation
\* error and creates nothing: no identifier is handed out or returned, no row
\* is written, nothing is enqueued, so no submission with blank code exists
\* anywhere, and a rejection leaves repository and queue unchanged.
C1_EmptyCodeRejected ==
  [](NoBlankSubmission) /\ [][RejectionChangesNothing]_vars

\* a whitespace-only submit was refused while another submission was taken
C1_Witness ==
  /\ rejected = {"Code cannot be empty"}
  /\ \E r \in Requests : Blank(r.code) /\ Len(r.code) > 0
  /\ nextId > 0

VerdictConsistent(status, verdict) ==
  /\ IsSome(verdict) <=> status \in TerminalStatus
  /\ status = "Failed" => Get(verdict).status \in VerdictKinds

\* C2: a verdict is attached exactly when the status is Completed or Failed,
\* for the submission object a worker holds and for the repository row, and
\* a Failed submission carries one of the verdict kinds.
C2_VerdictIffTerminal ==
  /\ \A w \in Workers :
       IsSome(workers[w].sub) =>
         VerdictConsistent(Get(workers[w].sub).status, Get(workers[w].sub).verdict)
  /\ \A id \in DOMAIN repo :
       VerdictConsistent(repo[id].status, repo[id].verdict)

\* a row that ended Failed with its verdict, and a worker past Completed
C2_Witness ==
  \E id \in DOMAIN repo :
    /\ repo[id].status = "Failed"
    /\ IsSome(repo[id].verdict)
    /\ Get(repo[id].verdict).status \in VerdictKinds

\* C3: once the status of a submission is Completed or Failed, no later step
\* of processSubmission changes it (the object the worker holds, and the row).
C3_TerminalStatusFinal ==
  [][ /\ \A w \in Workers :
           ( /\ IsSome(workers[w].sub)
             /\ Get(workers[w].sub).status \in TerminalStatus
             /\ IsSome(workers'[w].sub) )
           => Get(workers'[w].sub).status = Get(workers[w].sub).status
      /\ \A id \in DOMAIN repo :
           repo[id].status \in TerminalStatus
           => repo'[id].status = repo[id].status ]_vars

\* C4: a submission becomes Running only from Queued, and before any of its
\* test cases was handed to executeInContainer.
C4_RunningFromQueued ==
  [][ /\ \A id \in DOMAIN repo' :
           ( /\ repo'[id].status = "Running"
             /\ (id \notin DOMAIN repo \/ repo[id].status # "Running") )
           => /\ id \in DOMAIN repo
              /\ repo[id].status = "Queued"
              /\ id \notin executed
      /\ \A w \in Workers :
           ( /\ IsSome(workers'[w].sub)
             /\ Get(workers'[w].sub).status = "Running"
             /\ IsSome(workers[w].sub)
             /\ Get(workers[w].sub).status # "Running" )
           => /\ Get(workers[w].sub).status = "Queued"
              /\ Get(workers[w].sub).id \notin executed ]_vars

\* a submission that is Running in the repository and has run no test case
C4_Witness ==
  \E id \in DOMAIN repo :
    /\ repo[id].status = "Running"
    /\ id \notin executed
    /\ \E w \in Workers : workers[w].pc = "createEnv"

----------------------------------------------------------------------------
(* Normalisation of an output, stated position by position *)

NonWs(s) == {i \in 1..Len(s) : s[i] \notin Whitespace}
Least(S) == CHOOSE x \in S : \A y \in S : x <= y
Greatest(S) == CHOOSE x \in S : \A y \in S : y <= x

\* the characters of s at the positions K, in order
Pick(s, K) ==
  [n \in 1..Cardinality(K) |->
     s[CHOOSE i \in K : Cardinality({j \in K : j < i}) = n - 1]]

\* leading and trailing whitespace removed
Trimmed(s) ==
  IF NonWs(s) = {} THEN <<>> ELSE SubSeq(s, Least(NonWs(s)), Greatest(NonWs(s)))

\* position i holds a space that only spaces separate from the end of its line
TrailingSpace(s, i) ==
  /\ s[i] \in Whitespace \ {NL}
  /\ \A j \in i..Len(s) :
       (\A k \in i..j : s[k] # NL) => s[j] \in Whitespace

TrailingStripped(s) == Pick(s, {i \in 1..Len(s) : ~TrailingSpace(s, i)})

\* the line of position i is the stretch between the line breaks around it
LineStart(s, i) ==
  Least({p \in 1..i : \A k \in p..(i - 1) : s[k] # NL})
LineEnd(s, i) ==
  Greatest({q \in (i - 1)..Len(s) : \A k \in i..q : s[k] # NL})
\* position i is a character of a line that holds a non-whitespace
\* character, or the break that ends such a line
InKeptLine(s, i) ==
  IF s[i] = NL
  THEN \E k \in 1..(i - 1) :
         s[k] \notin Whitespace /\ \A m \in k..(i - 1) : s[m] # NL
  ELSE \E k \in LineStart(s, i)..LineEnd(s, i) : s[k] \notin Whitespace

\* empty lines dropped: the kept lines with one break between two of them
EmptyLinesDropped(s) ==
  LET kept == Pick(s, {i \in 1..Len(s) : InKeptLine(s, i)})
  IN IF Len(kept) > 0 /\ kept[Len(kept)] = NL
     THEN SubSeq(kept, 1, Len(kept) - 1) ELSE kept

Normalised(s, mode) ==
  LET a == IF mode.trimWhitespace THEN Trimmed(s) ELSE s
      b == IF mode.ignoreTrailingSpaces THEN TrailingStripped(a) ELSE a
      c == IF mode.ignoreEmptyLines THEN EmptyLinesDropped(b) ELSE b
  IN c

----------------------------------------------------------------------------
(* Properties of the judge *)

Judged == judge[JudgeWorker]

\* the run of a test case passed: the execute function succeeded, reported no
\* time above the test case's limit, and its output equals the expected
\* output after the judge's normalisation
RunPassed(tc, o) ==
  /\ ~o.thrown
  /\ o.res.success
  /\ ~(IsSome(o.res.executionTime) /\ Get(o.res.executionTime) > tc.timeLimit)
  /\ Normalised(OrElse(o.res.output, <<>>), JudgeMode)
       = Normalised(tc.expectedOutput, JudgeMode)

\* the run exceeded its time limit: the orchestrator's deadline ended it, or
\* it reports an execution time above the test case's limit
RunExceeded(tc, o) ==
  \/ o.deadline
  \/ ~o.thrown /\ IsSome(o.res.executionTime)
       /\ Get(o.res.executionTime) > tc.timeLimit

RunsOf(j) == 1..Len(j.log)
FailedRuns(j) == {i \in RunsOf(j) : ~RunPassed(j.testCases[i], j.log[i])}

\* C5: with stop-on-first-failure, when the first failing test case is the
\* k-th, exactly k test cases are run, the result list has k entries, no
\* later test case is run, and failedTestCase is k.
C5_StopOnFirstFailure ==
  LET j == Judged IN
  /\ Len(j.results) = Len(j.log)
  /\ Len(j.log) <= Len(j.testCases)
  /\ FailedRuns(j) # {} =>
       LET k == Least(FailedRuns(j)) IN
       /\ j.pc = "returned"
       /\ Len(j.log) = k
       /\ Len(j.results) = k
       /\ ~j.results[k].passed
       /\ Get(j.verdict).failedTestCase = Some(k)

\* three test cases, the second fails: two entries and failedTestCase = 2
C5_Witness ==
  LET j == Judged IN
  /\ j.pc = "returned"
  /\ Len(j.testCases) = 3
  /\ FailedRuns(j) = {2}
  /\ Len(j.results) = 2
  /\ Get(j.verdict).failedTestCase = Some(2)

\* C6: the verdict is Accepted exactly when every test case of the list was
\* run and every run passed; then passedTests = totalTests and there is no
\* failedTestCase.
C6_AcceptedIffAllPassed ==
  LET j == Judged IN
  j.pc = "returned" =>
    LET v == Get(j.verdict) IN
    /\ v.status = "Accepted"
         <=> (Len(j.log) = Len(j.testCases) /\ FailedRuns(j) = {})
    /\ v.totalTests = Len(j.testCases)
    /\ v.status = "Accepted" =>
         (v.passedTests = v.totalTests /\ v.failedTestCase = NoneV)

\* several test cases, all run and passed, verdict Accepted
C6_Witness ==
  LET j == Judged IN
  /\ j.pc = "returned"
  /\ Len(j.testCases) >= 2
  /\ Len(j.log) = Len(j.testCases)
  /\ Get(j.verdict).status = "Accepted"
  /\ Get(j.verdict).passedTests = Len(j.testCases)

\* C7: a verdict other than Accepted has the verdict kind of the first
\* failing test case, that case's 1-based index as failedTestCase, the number
\* of passed runs as passedTests, and as maxTime / maxMemory the maxima of
\* executionTime / memoryUsed over the test cases that were run.
C7_FirstFailureVerdict ==
  LET j == Judged IN
  (j.pc = "returned" /\ Get(j.verdict).status # "Accepted") =>
    LET v == Get(j.verdict)
        k == Least(FailedRuns(j))
        times == {j.results[i].executionTime : i \in 1..Len(j.results)}
        mems == {j.results[i].memoryUsed : i \in 1..Len(j.results)}
    IN /\ FailedRuns(j) # {}
       /\ v.status = j.results[k].verdict
       /\ j.results[k].testCaseNumber = k
       /\ v.failedTestCase = Some(k)
       /\ v.passedTests = Cardinality(RunsOf(j) \ FailedRuns(j))
       /\ Len(j.results) = Len(j.log)
       /\ \A i \in RunsOf(j) :
            /\ j.results[i].executionTime
                 = (IF j.log[i].thrown THEN 0
                    ELSE OrElse(j.log[i].res.executionTime, 0))
            /\ j.results[i].memoryUsed
                 = (IF j.log[i].thrown THEN 0
                    ELSE OrElse(j.log[i].res.memoryUsed, 0))
       /\ v.maxTime \in times /\ \A t \in times : t <= v.maxTime
       /\ v.maxMemory \in mems /\ \A m \in mems : m <= v.maxMemory

\* the second test case fails after a slower first one passed
C7_Witness ==
  LET j == Judged IN
  /\ j.pc = "returned"
  /\ Len(j.results) = 2
  /\ Get(j.verdict).status = "Wrong Answer"
  /\ Get(j.verdict).failedTestCase = Some(2)
  /\ Get(j.verdict).passedTests = 1
  /\ Get(j.verdict).maxTime = j.results[1].executionTime
  /\ j.results[2].executionTime < j.results[1].executionTime

\* C8: a run that exceeded its time limit gets the verdict kind Time Limit
\* Exceeded, whether the orchestrator's deadline ended it or the judge saw an
\* execution time above the test case's limit.
C8_TimeLimitVerdict ==
  \A w \in Workers :
    \A i \in 1..Len(judge[w].results) :
      RunExceeded(judge[w].testCases[i], judge[w].log[i])
        => judge[w].results[i].verdict = "Time Limit Exceeded"

\* C9: a test case whose run exceeded its time limit is never marked passed,
\* and a verdict over such a run is never Accepted.
C9_ExceededNeverPasses ==
  \A w \in Workers :
    LET j == judge[w]
        over == {i \in 1..Len(j.results) : RunExceeded(j.testCases[i], j.log[i])}
    IN /\ \A i \in over : ~j.results[i].passed
       /\ (over # {} /\ j.pc = "returned") => Get(j.verdict).status # "Accepted"

\* a run with the expected output, reported above the limit, was judged
C9_Witness ==
  LET j == Judged IN
  /\ j.pc = "returned"
  /\ \E i \in 1..Len(j.results) :
       /\ ~j.log[i].thrown
       /\ j.log[i].res.success
       /\ ~j.log[i].deadline
       /\ RunExceeded(j.testCases[i], j.log[i])
       /\ Normalised(OrElse(j.log[i].res.output, <<>>), JudgeMode)
            = j.testCases[i].expectedOutput
       /\ j.results[i].verdict = "Time Limit Exceeded"

\* C10: compareOutput is true exactly when the two strings are equal after
\* the same normalisation of both: whitespace trimmed at both ends, trailing
\* spaces of each line stripped, empty lines dropped, each if its flag is set.
C10_CompareIsNormalisedEquality ==
  /\ cmp.pc = "done" =>
       Get(cmp.result)
         = (Normalised(cmp.actual, cmp.mode) = Normalised(cmp.expected, cmp.mode))
  /\ compareOutput(<<"5", "\n">>, <<"5">>, JudgeMode)
  /\ compareOutput(<<"5", " ", "\n", "6">>, <<"5", "\n", "6">>, JudgeMode)

\* two different strings compared equal because a trailing space of an inner
\* line was stripped
C10_Witness ==
  /\ cmp.pc = "done"
  /\ cmp.actual = <<"5", " ", "\n">>
  /\ cmp.expected = <<"5", "\n">>
  /\ ~cmp.mode.trimWhitespace
  /\ cmp.mode.ignoreTrailingSpaces
  /\ cmp.result = Some(TRUE)

\* actual is expected followed by one or more line breaks and nothing else
BlankLinesAppended(actual, expected) ==
  /\ Len(actual) > Len(expected)
  /\ SubSeq(actual, 1, Len(expected)) = expected
  /\ \A i \in (Len(expected) + 1)..Len(actual) : actual[i] = NL

\* C11 as claimed: in the judge's mode (trim and trailing-space stripping on,
\* empty-line collapsing off) compareOutput("5\n\n", "5") returns false.
C11_TrailingBlankLinesSignificant ==
  ( /\ cmp.pc = "done"
    /\ cmp.actual = <<"5", "\n", "\n">>
    /\ cmp.expected = <<"5">>
    /\ cmp.mode = JudgeMode )
  => cmp.result = Some(FALSE)

\* C11 as amended: when actual is expected with blank lines appended,
\* compareOutput returns false exactly when both trimWhitespace and
\* ignoreEmptyLines are off; in the judge's mode, which trims,
\* compareOutput("5\n\n", "5") returns true.
C11_TrailingBlankLinesTrimmed ==
  ( /\ cmp.pc = "done"
    /\ BlankLinesAppended(cmp.actual, cmp.expected) )
  => cmp.result = Some(cmp.mode.trimWhitespace \/ cmp.mode.ignoreEmptyLines)

\* "5\n\n" against "5" compared equal in the judge's mode
C11_Witness ==
  /\ cmp.pc = "done"
  /\ cmp.actual = <<"5", "\n", "\n">>
  /\ cmp.expected = <<"5">>
  /\ cmp.mode = JudgeMode
  /\ cmp.result = Some(TRUE)

----------------------------------------------------------------------------
(* Properties of the strategy router *)

Routed == route.pc = "done"

\* the selection policy: five rules, each a condition and a kind
PolicyRules(a, load) ==
  << << /\ a.canRunInBrowser /\ ~a.hasUnsafeOperations
        /\ a.complexity = "low"
        /\ a.estimatedMemory < 100 * 1024 * 1024, "client" >>,
     << a.canRunInBrowser /\ ~a.hasUnsafeOperations /\ load > 80, "client" >>,
     << a.hasUnsafeOperations \/ a.complexity = "high", "server" >>,
     << a.complexity = "medium", "hybrid" >>,
     << TRUE, "server" >> >>

\* the kind of the first rule, in priority order, whose condition holds
PolicyKind(a, load) ==
  LET rules == PolicyRules(a, load)
  IN rules[Least({i \in 1..Len(rules) : rules[i][1]})][2]

HasUnsafeCall(code) ==
  \E i \in 1..Len(code) :
    code[i] \in {"open(", "socket", "fork(", "child_process"}

\* C13: code with an unsafe operation (file I/O, network, process spawn,
\* native import) is analysed as unsafe and, like every analysis with
\* hasUnsafeOperations, is given the server strategy, whatever the language
\* and the load.
C13_UnsafeRoutedToServer ==
  /\ (route.pc \in {"select", "done"} /\ HasUnsafeCall(route.code))
       => Get(route.analysis).hasUnsafeOperations
  /\ (Routed /\ Get(route.analysis).hasUnsafeOperations)
       => Get(route.strategy).type = "server"

\* javascript that spawns a process, under overload, was routed to the server
C13_Witness ==
  /\ Routed
  /\ route.language = "javascript"
  /\ \E i \in 1..Len(route.code) : route.code[i] = "fork("
  /\ route.load > 80
  /\ Get(route.analysis).complexity = "low"
  /\ Get(route.strategy).type = "server"

\* C14: a submission analysed as computationally heavy (complexity high) is
\* given the server strategy, for every language and every system load.
C14_HeavyRoutedToServer ==
  (Routed /\ Get(route.analysis).complexity = "high")
    => Get(route.strategy).type = "server"

----------------------------------------------------------------------------
(* Properties of custom tests and of the sandboxes *)

\* The submission object does not record isCustomTest; the valid requests of
\* the model differ in their code, so code and language tell which request a
\* submission was made of.
FromCustomRequest(x) ==
  \E r \in Requests :
    r.isCustomTest /\ r.code = x.code /\ r.language = x.language

NoCustomTestPersisted ==
  /\ \A id \in DOMAIN repo : ~FromCustomRequest(repo[id])
  /\ \A i \in 1..Len(queue) : ~FromCustomRequest(queue[i])

CustomTestWritesNothing ==
  custom' # custom => (repo' = repo /\ queue' = queue)

\* C15: a custom test is never persisted: no step of runCustomTest changes
\* the repository or the queue, and no row or queue entry exists that was
\* made of a submit request with isCustomTest = true.
C15_CustomTestNotPersisted ==
  [](NoCustomTestPersisted) /\ [][CustomTestWritesNothing]_vars

\* the step releases the environment of an activation that was at pc with
\* environment env: destroyEnvironment was called for it, and the
\* environment left workerPool unless stopping or removing it failed
Destroyed(pc, env) ==
  /\ pc = "destroy"
  /\ pool' \in {pool, pool \ {Get(env)}}

\* C16: processSubmission reaches Completed or Failed only while it holds its
\* environment, and every step by which it gives the environment up, on the
\* normal path and on the error path, is a call of destroyEnvironment for
\* that environment; likewise for runCustomTest, whatever the result.
C16_SandboxDestroyed ==
  [][ /\ \A w \in Workers :
           /\ (IsSome(workers[w].env) /\ workers'[w].env # workers[w].env)
                => /\ Destroyed(workers[w].pc, workers[w].env)
                   /\ Get(workers[w].sub).status \in TerminalStatus
           /\ ( /\ IsSome(workers[w].sub) /\ IsSome(workers'[w].sub)
                /\ Get(workers[w].sub).status \notin TerminalStatus
                /\ Get(workers'[w].sub).status \in TerminalStatus )
                => (IsSome(workers[w].env) /\ workers'[w].env = workers[w].env)
           /\ (IsSome(workers[w].sub) /\ ~IsSome(workers'[w].sub))
                => ( \/ Get(workers[w].sub).status \notin TerminalStatus
                     \/ IsSome(workers[w].env) )
      /\ (IsSome(custom.env) /\ custom'.env # custom.env)
           => /\ Destroyed(custom.pc, custom.env)
              /\ IsSome(custom.result) ]_vars

\* a worker on the error path and a custom test whose run failed, both at
\* their call of destroyEnvironment, for two different environments
C16_Witness ==
  /\ custom.pc = "destroy"
  /\ ~Get(custom.result).success
  /\ \E w \in Workers :
       /\ workers[w].pc = "destroy"
       /\ Get(workers[w].sub).status = "Failed"
       /\ workers[w].env # custom.env
       /\ {Get(workers[w].env), Get(custom.env)} \subseteq pool

----------------------------------------------------------------------------
(* Properties of the worker loop and of the queue *)

Ids == 1..MaxSubmits

Persisted(id, statuses) == id \in DOMAIN repo /\ repo[id].status \in statuses

\* C17: every submission whose identifier submit returned is eventually
\* taken by a worker and reaches Completed or Failed in the repository.
C17_EverySubmissionFinishes ==
  \A id \in Ids : (id \in returned) ~> Persisted(id, TerminalStatus)

\* C18: when createExecutionEnvironment fails and processSubmission gives up
\* provisioning (after its retries), the submission is in a terminal state
\* with a System Error verdict; it does not remain Running.
C18_ProvisioningFailureSurfaced ==
  [][ \A w \in Workers :
        ( /\ workers[w].pc = "createEnv"
          /\ workers'[w].pc # "createEnv"
          /\ ~IsSome(workers'[w].env) )
        => LET id == Get(workers[w].sub).id IN
           /\ id \in DOMAIN repo'
           /\ repo'[id].status \in TerminalStatus
           /\ IsSome(repo'[id].verdict)
           /\ Get(repo'[id].verdict).status = "System Error" ]_vars

Holders(id) ==
  {w \in Workers : IsSome(workers[w].sub) /\ Get(workers[w].sub).id = id}

InQueue(q, id) == \E i \in 1..Len(q) : q[i].id = id

\* no two workers hold the same submission, no worker holds a submission
\* that is in the queue, and no two queue entries are of one submission
AtMostOnePlace ==
  /\ \A w \in Workers, x \in Workers :
       (w # x /\ IsSome(workers[w].sub) /\ IsSome(workers[x].sub))
         => Get(workers[w].sub).id # Get(workers[x].sub).id
  /\ \A w \in Workers :
       IsSome(workers[w].sub) => ~InQueue(queue, Get(workers[w].sub).id)
  /\ \A i \in 1..Len(queue), j \in 1..Len(queue) :
       i # j => queue[i].id # queue[j].id

\* a worker gets a submission only by the step that takes it off the queue,
\* and a submission enters the queue only by the enqueue of its submit call
DeliveredFromQueue ==
  /\ \A w \in Workers :
       (~IsSome(workers[w].sub) /\ IsSome(workers'[w].sub))
         => /\ InQueue(queue, Get(workers'[w].sub).id)
            /\ ~InQueue(queue', Get(workers'[w].sub).id)
  /\ queue' # queue =>
       \A i \in 1..Len(queue') :
         ~InQueue(queue, queue'[i].id)
           => /\ queue'[i].id \in DOMAIN submits
              /\ submits[queue'[i].id].pc = "enqueue"

\* C19: with several workers taking from the queue, every submission is in at
\* most one place (one queue entry or one worker), a worker gets it only by
\* the dequeue that removes it, and it is enqueued only once, by submit: no
\* submission is delivered to or processed by two workers.
C19_DeliveredToOneWorker ==
  [](AtMostOnePlace) /\ [][DeliveredFromQueue]_vars

\* two workers were waiting on the queue; one of them has the submission and
\* is running its test case, the other still waits on the empty queue
C19_Witness ==
  \E id \in Ids, w \in Workers, x \in Workers :
    /\ w # x
    /\ Holders(id) = {w}
    /\ workers[w].pc = "evaluate"
    /\ workers[x].pc = "idle"
    /\ queue = <<>>
    /\ id \in executed

\* the worker died holding the submission before a terminal state of it was
\* persisted
CrashedHolding(w, id) ==
  /\ workers[w].pc = "crashed"
  /\ Get(workers[w].sub).id = id
  /\ ~Persisted(id, TerminalStatus)

\* C20: a submission a worker held when it crashed, before persisting a
\* terminal state, is eventually back in the queue or marked Failed.
C20_CrashedSubmissionRecovered ==
  \A id \in Ids : \A w \in Workers :
    CrashedHolding(w, id)
      ~> (InQueue(queue, id) \/ Persisted(id, {"Failed"}))

----------------------------------------------------------------------------
(* C21: one holder per environment *)

\* the environment an activation holds while it runs code in it
WorkerHolds(w) ==
  IF workers[w].pc \in {"evaluate", "updateCompleted", "updateFailed", "destroy"}
  THEN workers[w].env
  ELSE NoneV

CustomHolds == IF custom.pc \in {"execute", "destroy"} THEN custom.env ELSE NoneV

----------------------------------------------------------------------------
(* C22, C23: policy breaches and compile failures *)

\* worker w has run its submission's code and the run gave `text`
RunGave(w, text) ==
  /\ IsSome(workers[w].sub)
  /\ \E i \in 1..Len(judge[w].log) :
       ~judge[w].log[i].thrown /\ judge[w].log[i].res.output = Some(text)

\* the SecurityViolation records made for a submission
ViolationsOf(sub) ==
  {v \in violations : v.submissionId = sub.id /\ v.userId = sub.userId}

\* C22: when the code of a submission attempted an action the sandbox
\* policy denies, exactly one SecurityViolation record with the submission's
\* id and user id exists.
C22_BreachRecorded ==
  \A w \in Workers :
    RunGave(w, PolicyDenial) =>
      Cardinality(ViolationsOf(Get(workers[w].sub))) = 1

Compiled == {"cpp", "rust"}

\* C23: when the source of a submission in a compiled language does not
\* compile, the result of the test case and the verdict of the submission
\* are of kind Compilation Error, and the test case did not pass.
C23_CompileFailureReported ==
  \A w \in Workers :
    ( /\ RunGave(w, CompilerDiagnostic)
      /\ Get(workers[w].sub).language \in Compiled
      /\ judge[w].pc = "returned" ) =>
        LET result == judge[w].results[Len(judge[w].results)]
        IN /\ ~result.passed
           /\ result.verdict = "Compilation Error"
           /\ Get(judge[w].verdict).status = "Compilation Error"

----------------------------------------------------------------------------
(* C24: status updates *)

\* an update with this submission and status has been handed to sendUpdate
\* for this user
Emitted(userId, id, status) ==
  \E i \in 1..Len(statusUpdates) :
    /\ statusUpdates[i].userId = userId
    /\ statusUpdates[i].update.submissionId = id
    /\ statusUpdates[i].update.status = status

\* C24: for every status a submission has moved to and for every test case
\* it has completed, an update with the submission's id and the new status
\* has been emitted for the user who owns the submission.
C24_StatusUpdatesEmitted ==
  /\ \A id \in DOMAIN repo :
       repo[id].status # "Queued" =>
         Emitted(repo[id].userId, id, repo[id].status)
  /\ \A w \in Workers :
       (IsSome(workers[w].sub) /\ Len(judge[w].results) > 0) =>
         \E s \in {"Running", "Judging"} :
           Emitted(Get(workers[w].sub).userId, Get(workers[w].sub).id, s)

----------------------------------------------------------------------------
(* C25, C26: accumulated results and the read of a finished submission *)

\* worker w has finished judging its submission
Processed(w) ==
  /\ workers[w].pc \in {"updateCompleted", "destroy"}
  /\ Get(workers[w].sub).status = "Completed"

\* C25: after processing, testResults of the submission holds, in input
\* order, exactly one TestCaseResult per test case that was executed, and
\* the row of a terminal submission holds the same results.
C25_ResultsAccumulated ==
  \A w \in Workers :
    Processed(w) =>
      /\ Len(Get(workers[w].sub).testResults) = Len(judge[w].log)
      /\ Get(workers[w].sub).testResults = judge[w].results
      /\ (workers[w].pc = "destroy") =>
            repo[Get(workers[w].sub).id].testResults = Some(judge[w].results)

\* C26: for every submission persisted as Completed, getSubmission returns
\* status Completed and the verdict that was persisted, which is the
\* judge's; for an identifier submit never made it returns not-found.
C26_CompletedReadBack ==
  /\ \A id \in DOMAIN repo :
       repo[id].status = "Completed" =>
         /\ ~getSubmission(id).thrown
         /\ IsSome(getSubmission(id).submission)
         /\ Get(getSubmission(id).submission).status = "Completed"
         /\ Get(getSubmission(id).submission).verdict = repo[id].verdict
  /\ \A w \in Workers :
       (Processed(w) /\ workers[w].pc = "destroy") =>
          repo[Get(workers[w].sub).id].verdict = judge[w].verdict
  /\ getSubmission(nextId + 1) = [thrown |-> FALSE, submission |-> NoneV]

----------------------------------------------------------------------------
(* C27: identifiers of interleaved submit calls *)

QueueEntries(id) == {i \in 1..Len(queue) : queue[i].id = id}

\* C27: whatever way the calls of submit interleave at their awaits, every
\* identifier a call has returned names exactly one row of the repository
\* and exactly one queue entry, both made of that call's request, and no
\* two queue entries carry the same identifier.
C27_IdentifiersDistinct ==
  /\ \A id \in returned :
       /\ id \in DOMAIN repo
       /\ Cardinality(QueueEntries(id)) = 1
       /\ \A i \in QueueEntries(id) : Row(queue[i]) = repo[id]
  /\ \A i \in 1..Len(queue) : \A j \in 1..Len(queue) :
       (queue[i].id = queue[j].id) => i = j
  /\ Cardinality(returned) <= nextId

\* two calls have returned, and the one that got its identifier later
\* reached the queue first
C27_Witness ==
  /\ Cardinality(returned) >= 2
  /\ \E i \in 1..Len(queue) : \E j \in 1..Len(queue) :
       i < j /\ queue[i].id > queue[j].id
       /\ queue[i].id \in returned /\ queue[j].id \in returned

----------------------------------------------------------------------------
(* C28: the order of the runs of evaluate *)

\* One step of evaluate from activation j to activation k: evaluate was
\* awaiting a run, no run before had failed, and the step is one run, of
\* the test case that follows the ones already run
NextRunInOrder(j, k) ==
  LET n == Len(j.log) + 1 IN
  /\ j.pc = "loop"
  /\ k.testCases = j.testCases
  /\ n <= Len(j.testCases)
  /\ \A i \in 1..Len(j.results) : j.results[i].passed
  /\ Len(k.log) = n
  /\ Len(k.results) = n
  /\ SubSeq(k.log, 1, n - 1) = j.log
  /\ SubSeq(k.results, 1, n - 1) = j.results
  /\ k.results[n].testCaseNumber = n
  /\ k.results[n].passed = RunPassed(j.testCases[n], k.log[n])

\* C28: the runs evaluate makes are a prefix of the list of test cases, in
\* input order: every step of evaluate is one run, of the next test case,
\* made only when the run before has returned and passed; no test case is
\* run twice.
C28_RunsArePrefixInOrder ==
  [][ (judge'[JudgeWorker] # judge[JudgeWorker]) =>
         NextRunInOrder(judge[JudgeWorker], judge'[JudgeWorker]) ]_vars

\* two of three test cases have been run, in order, and the third is awaited
C28_Witness ==
  /\ Judged.pc = "loop"
  /\ Len(Judged.testCases) = 3
  /\ Len(Judged.log) = 2
  /\ Judged.results[1].testCaseNumber = 1
  /\ Judged.results[2].testCaseNumber = 2

----------------------------------------------------------------------------
(* C29, C30: the limits of a run and the status while test cases run *)

\* C29: every test case is run under its own limits: the time limit handed
\* to the orchestrator for the run is the test case's timeLimit, so a run
\* that took longer than the test case allows was ended by the sandbox's
\* deadline.
C29_RunUnderTestCaseLimits ==
  \A w \in Workers :
    \A i \in 1..Len(judge[w].log) :
      LET tc == judge[w].testCases[i]
          o == judge[w].log[i]
      IN /\ RunLimits.timeLimit = tc.timeLimit
         /\ ( /\ ~o.thrown
              /\ IsSome(o.res.executionTime)
              /\ Get(o.res.executionTime) > tc.timeLimit ) => o.deadline

\* C30: while the test cases of a submission are executed its status is
\* Judging, no longer Running, and a submission that is Completed was
\* Judging when its last test case returned.
C30_JudgingWhileTestsRun ==
  \A w \in Workers :
    (workers[w].pc = "evaluate") => Get(workers[w].sub).status = "Judging"

----------------------------------------------------------------------------
(* C31: the statuses a reader sees *)

\* the place of a status in the order Queued, Running, Judging, terminal
StatusRank(status) ==
  IF status = "Queued" THEN 0
  ELSE IF status = "Running" THEN 1
  ELSE IF status = "Judging" THEN 2
  ELSE 3

\* the status column of the row a reader selects
ReadStatus(rows, id) == rows[id].status

----------------------------------------------------------------------------
(* C32: the deadline of a run *)

\* worker w waits for executeInContainer to return
InRun(w) ==
  \/ workers[w].pc = "blocked"
  \/ workers[w].pc = "evaluate" /\ judge[w].pc = "loop"

\* C32: every call of executeInContainer returns a result, whatever the
\* sandbox does: a worker that waits for a run gets its result and
\* evaluate goes on.
C32_RunAlwaysReturns ==
  \A w \in Workers : InRun(w) ~> ~InRun(w)

----------------------------------------------------------------------------
(* C33: the sandbox after a breach *)

\* a run of activation j timed out or went over its test case's time limit
Breached(j) ==
  \E i \in RunsOf(j) : RunExceeded(j.testCases[i], j.log[i])

\* C33: after a run in an environment has timed out or gone over its
\* limit, no later run is made in that environment, and the environment is
\* terminated: when processSubmission has ended, it is gone from the
\* orchestrator's pool.
C33_BreachTerminatesSandbox ==
  [][ \A w \in Workers :
        Breached(judge[w]) =>
          /\ judge'[w] = judge[w] \/ judge'[w] = JudgeIdle
          /\ (workers[w].pc = "destroy" /\ workers'[w].pc = "idle") =>
                Get(workers[w].env) \notin pool' ]_vars

----------------------------------------------------------------------------
(* C34: the kind of sandbox and the strategy *)

\* the strategy kinds a docker container on the server is the sandbox of
ContainerStrategies == {"server"}

\* C34: the environment processSubmission acquires matches the kind of the
\* ExecutionStrategy submit attached to the submission: a container is
\* created only for a submission routed to the server.
C34_SandboxMatchesStrategy ==
  \A w \in Workers :
    IsSome(workers[w].env) =>
      Get(workers[w].sub).executionStrategy.type \in ContainerStrategies

----------------------------------------------------------------------------
(* C35, C40: the queue under concurrent calls *)

\* C35: the depth a call of enqueue returns is the depth of the queue at
\* the instant its own submission was appended, which is the submission's
\* position counted from the head.
C35_EnqueueDepthIsPosition ==
  \A c \in QueueClients :
    qcalls.enq[c].pc = "done" =>
      qcalls.enq[c].depth = Some(qcalls.enq[c].at)

\* the identifiers dequeue has returned, in the order of its calls
Delivered ==
  LET got == SelectSeq(qcalls.deq, LAMBDA x : IsSome(x))
  IN [i \in 1..Len(got) |-> Get(got[i])]

QueueIds == [i \in 1..Len(queue) |-> queue[i].id]

\* the 1-based distance of a submission from the head, -1 when absent
PositionRight(id) ==
  LET p == getQueuePosition(queue, id) IN
  IF \E i \in 1..Len(queue) : queue[i].id = id
  THEN /\ p \in 1..Len(queue)
       /\ queue[p].id = id
       /\ \A i \in 1..(p - 1) : queue[i].id # id
  ELSE p = 0 - 1

\* C40: the queue is first in, first out: what dequeue has returned,
\* followed by what is still queued, is what enqueue appended, in the order
\* of the appends; a dequeue on an empty queue returns null and leaves the
\* queue as it is; getQueuePosition is the distance from the head, or -1
\* exactly for a submission that is not in the queue.
C40_QueueIsFifo ==
  /\ [](Delivered \o QueueIds = qcalls.pushed)
  /\ [](\A id \in 1..(MaxCalls + 1) : PositionRight(id))
  /\ [][ (Len(qcalls'.deq) > Len(qcalls.deq)
            /\ qcalls'.deq[Len(qcalls'.deq)] = NoneV) =>
              (queue = <<>> /\ queue' = queue) ]_vars

\* two submissions were returned in the order they were appended, after a
\* dequeue that found the queue empty
C40_Witness ==
  /\ Len(Delivered) >= 2
  /\ Delivered[1] = qcalls.pushed[1]
  /\ Delivered[2] = qcalls.pushed[2]
  /\ qcalls.deq[1] = NoneV

----------------------------------------------------------------------------
(* C36: Cancelled *)

\* the status of every copy of a submission: rows, queue entries, the
\* objects of submit calls in flight and of the workers
StatusesHeld ==
  {repo[id].status : id \in DOMAIN repo}
    \cup {queue[i].status : i \in 1..Len(queue)}
    \cup {submits[id].sub.status : id \in DOMAIN submits}
    \cup {Get(workers[w].sub).status : w \in {x \in Workers : IsSome(workers[x].sub)}}

\* C36: no step of submit, of processSubmission or of the judge sets the
\* status of a submission to Cancelled; in particular a submission that is
\* Completed or Failed never becomes Cancelled.
C36_NeverCancelledByProcessing == "Cancelled" \notin StatusesHeld

\* a submission has been persisted as Completed and every worker is back
\* on the queue
C36_Witness ==
  \E id \in DOMAIN repo :
    /\ repo[id].status = "Completed"
    /\ \A w \in Workers : workers[w].pc = "idle"

----------------------------------------------------------------------------
(* C37: submit and its two stores *)

\* C37: submit is all or nothing: a submission whose identifier was
\* returned has a row and a queue entry, a call that failed has left
\* neither, and so every row that is Queued belongs to a call still in
\* flight or to a submission that is in the queue, and every queue entry
\* has a row.
C37_SubmitAllOrNothing ==
  /\ \A id \in DOMAIN repo :
       repo[id].status = "Queued" =>
         (id \in DOMAIN submits \/ InQueue(queue, id))
  /\ \A i \in 1..Len(queue) :
       queue[i].id \in DOMAIN repo
  /\ \A i \in 1..Len(queue) :
       (queue[i].id \in returned \/ queue[i].id \in DOMAIN submits)

----------------------------------------------------------------------------
(* C38: the orchestrator's pool *)

\* the environments that were created and whose destroyEnvironment has not
\* returned yet
LiveEnvironments ==
  {Get(WorkerHolds(w)) : w \in {x \in Workers : IsSome(WorkerHolds(x))}}
    \cup (IF IsSome(CustomHolds) THEN {Get(CustomHolds)} ELSE {})

\* C38: workerPool holds exactly the environments that were created and
\* not yet destroyed: once destroyEnvironment(env) has returned, env is no
\* longer in the pool, whether stopping and removing the container worked
\* or not.
C38_PoolIsLiveEnvironments == pool = LiveEnvironments

----------------------------------------------------------------------------
(* C39: failing runs inside the judge *)

\* run i of activation j failed: the execute function threw or gave a
\* result with success = false
RunFailed(j, i) == j.log[i].thrown \/ ~j.log[i].res.success

\* C39: evaluate does not reject because of a failing run: an exception of
\* the execute function for test case k, or a result with success = false,
\* becomes a failed TestCaseResult for case k, with the result's verdict or
\* Runtime Error when it has none, and evaluate stops there and returns a
\* verdict; executeInContainer itself gives a result and throws nothing.
C39_FailingRunBecomesResult ==
  LET j == Judged IN
  /\ \A k \in RunsOf(j) :
       RunFailed(j, k) =>
         /\ k = Len(j.log)
         /\ Len(j.results) = k
         /\ j.results[k].testCaseNumber = k
         /\ ~j.results[k].passed
         /\ j.results[k].verdict =
              (IF j.log[k].thrown THEN "Runtime Error"
               ELSE OrElse(j.log[k].res.verdict, "Runtime Error"))
         /\ j.pc = "returned"
         /\ IsSome(j.verdict)
         /\ Get(j.verdict).status = j.results[k].verdict
  /\ \A beh \in ContainerBehaviours :
       /\ ~containerOutcome(beh, RunLimits).thrown
       /\ (beh.kind # "end") => ~containerOutcome(beh, RunLimits).res.success

\* the execute function threw for the second of three test cases
C39_Witness ==
  /\ Len(Judged.testCases) = 3
  /\ Len(Judged.log) = 2
  /\ Judged.log[2].thrown
  /\ Judged.pc = "returned"
  /\ Judged.results[2].verdict = "Runtime Error"

====
